---- MODULE Spec2Model ----
(***************************************************************************)
(* A model of aglearn.py: the AGLearner class, which learns co-occurrence  *)
(* and linear-order rules from a corpus (train) and then applies them to   *)
(* held-out sequences (test).                                              *)
(*                                                                         *)
(* Python containers are modelled as follows.                              *)
(*   - a plain dict keyed by SYMBOLS (before, after, mustprecede,          *)
(*     mustfollow) is a function with domain SYMBOLS; indexing it with     *)
(*     another key raises KeyError;                                        *)
(*   - a defaultdict(set) (requires, excludes, noprecede, nofollow) is a   *)
(*     function whose DOMAIN is the dict's key set; indexing it with an    *)
(*     absent key inserts that key with the empty set (Touch);             *)
(*   - the defaultdict(int) counters (counts, cooccurs) are total          *)
(*     functions over Tokens, an absent key reading as 0;                  *)
(*   - a format()ed reason string is the triple of its three words.        *)
(***************************************************************************)
EXTENDS Integers, Sequences, FiniteSets, TLC

\* ---------------------------------------------------------------- constants

SYMBOLS == {"a", "c", "d", "e", "f", "g"}

START_SYM == "^"

END_SYM == "$"

\* ------------------------------------------------------------------- bounds

\* Longest line of the training file and of the test file.
MaxLen == 3

\* Most lines read from the training file.
MaxLines == 2

\* A token that is not an alphabet symbol.
OutSym == "x"

\* The tokens the modelled input files are written with.
InputTokens == {"a", "c", OutSym}

Tokens == SYMBOLS \cup InputTokens

\* The lines str.split() can yield: token lists of bounded length.
Lines == UNION {[1..n -> InputTokens] : n \in 0..MaxLen}

\* ------------------------------------------------------------ pure helpers

\* set(line_symbols[:idx]), for the 1-based position idx
PrecedingSymbols(line, idx) == {line[i] : i \in 1..(idx - 1)}

\* set(line_symbols[idx + 1:])
FollowingSymbols(line, idx) == {line[i] : i \in (idx + 1)..Len(line)}

\* The plausible slip of counting only the symbols to the right.
OtherSymbolsRightOnly(line, idx) == FollowingSymbols(line, idx)

\* other_symbols = preceding_symbols | following_symbols
OtherSymbols(line, idx) ==
    PrecedingSymbols(line, idx) \cup FollowingSymbols(line, idx)

\* The plausible slip of narrowing only when something is present.
NarrowSkipEmpty(cands, present) ==
    IF present = {} THEN cands ELSE cands \ (SYMBOLS \ present)

\* for sym2 in SYMBOLS: if sym2 not in present: cands.remove(sym2), an
\* absent sym2 being passed over (except KeyError: pass)
Narrow(cands, present) == cands \ (SYMBOLS \ present)

\* The plausible slip of giving the table the default of mustprecede.
TouchFull(t, k) == IF k \in DOMAIN t THEN t ELSE t @@ (k :> SYMBOLS)

\* Reading a defaultdict(set) at key k: an absent key is inserted.
Touch(t, k) == IF k \in DOMAIN t THEN t ELSE t @@ (k :> {})

\* The value a defaultdict(set) holds, or would yield, at key k.
Get(t, k) == IF k \in DOMAIN t THEN t[k] ELSE {}

\* ----------------------------------------------------------------- training

\* The body of the loop over one line (lines 61-92) at position idx, on the
\* record st of the learner's input tables.  A KeyError raised by an access to
\* before or after leaves the tables as they are at that point.
TrainPosition(st, line, idx) ==
    LET sym1 == line[idx]
        preceding_symbols == PrecedingSymbols(line, idx)
        following_symbols == FollowingSymbols(line, idx)
        other_symbols == OtherSymbols(line, idx)
        counted == [st EXCEPT
            !.counts[sym1] = @ + 1,
            !.cooccurs[sym1] =
                [sym2 \in Tokens |->
                    IF sym2 \in other_symbols THEN @[sym2] + 1 ELSE @[sym2]]]
    IN  IF preceding_symbols # {} /\ sym1 \notin DOMAIN st.before
        THEN [counted EXCEPT !.err = "KeyError"]
        ELSE
        LET marked_before ==
                IF preceding_symbols = {} THEN counted
                ELSE [counted EXCEPT
                        !.before[sym1] = @ \cup preceding_symbols]
        IN  IF following_symbols # {} /\ sym1 \notin DOMAIN st.after
            THEN [marked_before EXCEPT !.err = "KeyError"]
            ELSE
            LET marked ==
                    IF following_symbols = {} THEN marked_before
                    ELSE [marked_before EXCEPT
                            !.after[sym1] = @ \cup following_symbols]
            IN  IF sym1 \notin DOMAIN st.mustprecede
                THEN marked    \* every KeyError is caught at lines 86, 91
                ELSE [marked EXCEPT
                        !.mustprecede[sym1] = Narrow(@, preceding_symbols),
                        !.mustfollow[sym1] = Narrow(@, following_symbols)]

\* for idx, sym1 in enumerate(line_symbols), from position idx on; the
\* exception ends the loop.
RECURSIVE TrainLineFrom(_, _, _)
TrainLineFrom(st, line, idx) ==
    IF idx > Len(line) \/ st.err # "none" THEN st
    ELSE TrainLineFrom(TrainPosition(st, line, idx), line, idx + 1)

\* The plausible slip of asking for at least one co-occurrence.
IsRequiredSome(cnt, co, sym1, sym2) == co[sym1][sym2] > 0

\* The plausible slip of guarding the rule against unseen symbols.
IsRequiredSeen(cnt, co, sym1, sym2) ==
    cnt[sym1] > 0 /\ co[sym1][sym2] = cnt[sym1]

\* if self.cooccurs[sym1][sym2] == count1
IsRequired(cnt, co, sym1, sym2) == co[sym1][sym2] = cnt[sym1]

\* The plausible slip of writing "if" for "elif".
IsExcludedIf(cnt, co, sym1, sym2) == co[sym1][sym2] = 0

\* elif self.cooccurs[sym1][sym2] == 0
IsExcluded(cnt, co, sym1, sym2) ==
    ~IsRequired(cnt, co, sym1, sym2) /\ co[sym1][sym2] = 0

\* The plausible slip of consulting the other observation set.
IsNoPrecedeSwapped(bef, aft, sym1, sym2) == sym2 \notin aft[sym1]

\* if sym2 not in self.before[sym1]
IsNoPrecede(bef, aft, sym1, sym2) == sym2 \notin bef[sym1]

\* The same slip on the other side.
IsNoFollowSwapped(bef, aft, sym1, sym2) == sym2 \notin bef[sym1]

\* if sym2 not in self.after[sym1]
IsNoFollow(bef, aft, sym1, sym2) == sym2 \notin aft[sym1]

\* A defaultdict(set) t after t[sym1].add(sym2) for every sym2 of
\* added[sym1], sym1 in SYMBOLS: a key is inserted only by an add.
Learn(t, added) ==
    LET keys == DOMAIN t \cup {sym1 \in SYMBOLS : added[sym1] # {}}
    IN  [sym1 \in keys |-> Get(t, sym1) \cup
            (IF sym1 \in SYMBOLS THEN added[sym1] ELSE {})]

\* -------------------------------------------------------------------- state

VARIABLES
    pc,               \* "train": in train()'s loop; "test": in test()'s loop
    err,              \* "none", or the exception that ended the program
    corpus,           \* the lines read from the training file so far
    counts, cooccurs, before, after,
    requires, excludes, noprecede, nofollow, mustprecede, mustfollow,
    term_symbols, ngram,
    line_symbols,     \* the test record being classified
    cooccur_ok, cooccur_reasons, linear_ok, linear_reasons

inputs == <<counts, cooccurs, before, after, mustprecede, mustfollow>>

rules == <<requires, excludes, noprecede, nofollow>>

verdict ==
    <<line_symbols, cooccur_ok, cooccur_reasons, linear_ok, linear_reasons>>

vars == <<pc, err, corpus, inputs, rules, term_symbols, ngram, verdict>>

\* AGLearner.__init__
Init ==
    /\ pc = "train"
    /\ err = "none"
    /\ corpus = <<>>
    /\ counts = [s \in Tokens |-> 0]
    /\ cooccurs = [s \in Tokens |-> [t \in Tokens |-> 0]]
    /\ before = [sym \in SYMBOLS |-> {}]
    /\ after = [sym \in SYMBOLS |-> {}]
    /\ requires = <<>>
    /\ excludes = <<>>
    /\ noprecede = <<>>
    /\ nofollow = <<>>
    /\ mustprecede = [sym \in SYMBOLS |-> SYMBOLS]
    /\ mustfollow = [sym \in SYMBOLS |-> SYMBOLS]
    /\ term_symbols = <<>>
    /\ ngram = "None"
    /\ line_symbols = <<>>
    /\ cooccur_ok = TRUE
    /\ cooccur_reasons = {}
    /\ linear_ok = TRUE
    /\ linear_reasons = {}

\* The learner's input tables as one record.
InputTables ==
    [counts |-> counts, cooccurs |-> cooccurs, before |-> before,
     after |-> after, mustprecede |-> mustprecede,
     mustfollow |-> mustfollow, err |-> "none"]

\* One pass of "for line in train_file" (lines 57-95).
TrainLine(line) ==
    /\ pc = "train"
    /\ err = "none"
    /\ Len(corpus) < MaxLines
    /\ LET st == TrainLineFrom(InputTables, line, 1)
       IN  /\ counts' = st.counts
           /\ cooccurs' = st.cooccurs
           /\ before' = st.before
           /\ after' = st.after
           /\ mustprecede' = st.mustprecede
           /\ mustfollow' = st.mustfollow
           /\ err' = st.err
           /\ term_symbols' =
                IF st.err = "none"
                THEN term_symbols \o <<START_SYM>> \o line \o <<END_SYM>>
                ELSE term_symbols
    /\ corpus' = Append(corpus, line)
    /\ UNCHANGED <<pc, rules, ngram, verdict>>

\* The end of the training file: lines 99-115.
FinishTrain ==
    /\ pc = "train"
    /\ err = "none"
    /\ LET Pairs(R(_, _)) ==
                [sym1 \in SYMBOLS |-> {sym2 \in SYMBOLS : R(sym1, sym2)}]
           Req(sym1, sym2) == IsRequired(counts, cooccurs, sym1, sym2)
           Exc(sym1, sym2) == IsExcluded(counts, cooccurs, sym1, sym2)
           NoP(sym1, sym2) == IsNoPrecede(before, after, sym1, sym2)
           NoF(sym1, sym2) == IsNoFollow(before, after, sym1, sym2)
       IN  /\ requires' = Learn(requires, Pairs(Req))
           /\ excludes' = Learn(excludes, Pairs(Exc))
           /\ noprecede' = Learn(noprecede, Pairs(NoP))
           /\ nofollow' = Learn(nofollow, Pairs(NoF))
    /\ ngram' = "NgramModel"
    /\ pc' = "test"
    /\ UNCHANGED <<err, corpus, inputs, term_symbols, verdict>>

\* ----------------------------------------------------------- classification

\* The body of the loop over one test record (lines 156-188) at position idx,
\* on the record st of the rule tables and the verdicts collected so far.  The
\* defaultdict tables are read, and so may gain a key; mustprecede and
\* mustfollow are plain dicts, and raise KeyError at a key they lack.
TestPosition(st, line, idx) ==
    LET sym1 == line[idx]
        preceding_symbols == PrecedingSymbols(line, idx)
        following_symbols == FollowingSymbols(line, idx)
        other_symbols == OtherSymbols(line, idx)
        exc == Touch(st.excludes, sym1)
        req == Touch(st.requires, sym1)
        nop == IF preceding_symbols = {} THEN st.noprecede
               ELSE Touch(st.noprecede, sym1)
        nof == IF following_symbols = {} THEN st.nofollow
               ELSE Touch(st.nofollow, sym1)
        co_reasons ==
            {<<sym1, "excludes", sym2>> : sym2 \in exc[sym1] \cap other_symbols}
            \cup {<<sym1, "requires", sym2>> :
                    sym2 \in req[sym1] \cap (SYMBOLS \ other_symbols)}
        no_reasons ==
            {<<prec_sym, "cannot precede", sym1>> :
                prec_sym \in preceding_symbols \cap Get(nop, sym1)}
            \cup {<<fol_sym, "cannot follow", sym1>> :
                    fol_sym \in following_symbols \cap Get(nof, sym1)}
        read == [st EXCEPT
            !.excludes = exc,
            !.requires = req,
            !.noprecede = nop,
            !.nofollow = nof,
            !.cooccur_ok = @ /\ co_reasons = {},
            !.cooccur_reasons = @ \cup co_reasons,
            !.linear_ok = @ /\ no_reasons = {},
            !.linear_reasons = @ \cup no_reasons]
    IN  IF sym1 \notin DOMAIN st.mustprecede
        THEN [read EXCEPT !.err = "KeyError"]
        ELSE
        LET must_reasons ==
                {<<prec_sym, "must precede", sym1>> :
                    prec_sym \in st.mustprecede[sym1] \ preceding_symbols}
                \cup {<<fol_sym, "must follow", sym1>> :
                        fol_sym \in st.mustfollow[sym1] \ following_symbols}
        IN  [read EXCEPT
                !.linear_ok = @ /\ must_reasons = {},
                !.linear_reasons = @ \cup must_reasons]

\* for idx, sym1 in enumerate(line_symbols), from position idx on; the
\* exception ends the loop.
RECURSIVE TestLineFrom(_, _, _)
TestLineFrom(st, line, idx) ==
    IF idx > Len(line) \/ st.err # "none" THEN st
    ELSE TestLineFrom(TestPosition(st, line, idx), line, idx + 1)

\* The rule tables and fresh verdicts, as one record (lines 151-154).
TestTables ==
    [requires |-> requires, excludes |-> excludes, noprecede |-> noprecede,
     nofollow |-> nofollow, mustprecede |-> mustprecede,
     mustfollow |-> mustfollow, err |-> "none",
     cooccur_ok |-> TRUE, cooccur_reasons |-> {},
     linear_ok |-> TRUE, linear_reasons |-> {}]

\* One pass of "for line in test_file" (lines 144-197) on the record sent.
Classify(sent) ==
    /\ pc = "test"
    /\ err = "none"
    /\ LET st == TestLineFrom(TestTables, sent, 1)
       IN  /\ requires' = st.requires
           /\ excludes' = st.excludes
           /\ noprecede' = st.noprecede
           /\ nofollow' = st.nofollow
           /\ cooccur_ok' = st.cooccur_ok
           /\ cooccur_reasons' = st.cooccur_reasons
           /\ linear_ok' = st.linear_ok
           /\ linear_reasons' = st.linear_reasons
           /\ err' = st.err
    /\ line_symbols' = sent
    /\ UNCHANGED <<pc, corpus, inputs, term_symbols, ngram>>

Next ==
    \/ \E line \in Lines : TrainLine(line)
    \/ FinishTrain
    \/ \E sent \in Lines : Classify(sent)

Spec == Init /\ [][Next]_vars

\* The run of train() alone, as main() calls it before test().
NextTrain ==
    \/ \E line \in Lines : TrainLine(line)
    \/ FinishTrain

SpecTrain == Init /\ [][NextTrain]_vars

\* --------------------------------------------------------------- properties

\* train() has returned.
Trained == pc = "test" /\ ngram = "NgramModel"

\* The positions of the corpus: <<i, j>> is token j of line i.
Positions == {p \in (1..Len(corpus)) \X (1..MaxLen) : p[2] <= Len(corpus[p[1]])}

TokenAt(p) == corpus[p[1]][p[2]]

Occurs(A) == \E p \in Positions : TokenAt(p) = A

\* B stands at a position of line i other than j.
Elsewhere(B, p) ==
    \E k \in 1..Len(corpus[p[1]]) : k # p[2] /\ corpus[p[1]][k] = B

\* B stands at a position of line i before j.
Earlier(B, p) == \E k \in 1..(p[2] - 1) : corpus[p[1]][k] = B

\* B stands at a position of line i after j.
Later(B, p) ==
    \E k \in (p[2] + 1)..Len(corpus[p[1]]) : corpus[p[1]][k] = B

\* Every token of the corpus is an alphabet symbol.
AlphabetCorpus == \A p \in Positions : TokenAt(p) \in SYMBOLS

\* No line of the corpus holds a token twice.
NoRepeats ==
    \A p \in Positions : ~Elsewhere(TokenAt(p), p)

\* C1 as stated: after train(), a symbol A that never appears in the corpus
\* has Excludes(A) = the full alphabet and Requires(A) = empty.
C1_UnseenIsExcluded ==
    Trained => \A A \in SYMBOLS :
        ~Occurs(A) => Get(excludes, A) = SYMBOLS /\ Get(requires, A) = {}

\* C1 as amended: after train(), a symbol A that never appears in the corpus
\* has Requires(A) = the full alphabet and Excludes(A) = empty, the equality
\* test of line 103 (0 == 0) being tried before the zero test of line 105.
C1_UnseenIsRequired ==
    Trained => \A A \in SYMBOLS :
        ~Occurs(A) => Get(requires, A) = SYMBOLS /\ Get(excludes, A) = {}

C1_Witness ==
    /\ Trained
    /\ Occurs("a") /\ ~Occurs("c")
    /\ Get(requires, "c") = SYMBOLS /\ Get(excludes, "c") = {}
    /\ Get(requires, "a") # SYMBOLS

\* The tables train() builds from the lines, starting from __init__'s.
RECURSIVE TrainFrom(_, _, _)
TrainFrom(st, lines, i) ==
    IF i > Len(lines) \/ st.err # "none" THEN st
    ELSE TrainFrom(TrainLineFrom(st, lines[i], 1), lines, i + 1)

FreshTables ==
    [counts |-> [s \in Tokens |-> 0],
     cooccurs |-> [s \in Tokens |-> [t \in Tokens |-> 0]],
     before |-> [sym \in SYMBOLS |-> {}],
     after |-> [sym \in SYMBOLS |-> {}],
     mustprecede |-> [sym \in SYMBOLS |-> SYMBOLS],
     mustfollow |-> [sym \in SYMBOLS |-> SYMBOLS],
     err |-> "none"]

\* The corpus with every token outside the alphabet struck out.
AlphabetTokensAlone ==
    [i \in 1..Len(corpus) |-> SelectSeq(corpus[i], LAMBDA t : t \in SYMBOLS)]

\* C2: train() completes without an error on a corpus holding a token outside
\* the alphabet (alone on its line, or before or after other tokens), and
\* fills the tables indexed by alphabet symbols as the alphabet tokens alone
\* would.
C2_TrainToleratesOutsideTokens ==
    /\ pc = "train" => err = "none"
    /\ Trained =>
        LET st == TrainFrom(FreshTables, AlphabetTokensAlone, 1)
        IN  \A A \in SYMBOLS :
                /\ counts[A] = st.counts[A]
                /\ \A B \in SYMBOLS : cooccurs[A][B] = st.cooccurs[A][B]
                /\ before[A] = st.before[A]
                /\ after[A] = st.after[A]
                /\ mustprecede[A] = st.mustprecede[A]
                /\ mustfollow[A] = st.mustfollow[A]

\* C3: classifying a sequence that holds a token outside the alphabet
\* completes without an error and records no reason about a position that
\* holds such a token.
C3_ClassifyToleratesOutsideTokens ==
    (pc = "test" /\ \E i \in 1..Len(line_symbols) : line_symbols[i] \notin SYMBOLS)
    =>  /\ err = "none"
        /\ \A r \in cooccur_reasons : r[1] \in SYMBOLS
        /\ \A r \in linear_reasons : r[3] \in SYMBOLS

\* C4 as stated: after train() on any corpus, cooccurs(A, B) = cooccurs(B, A)
\* for all alphabet symbols A and B.
C4_CooccursSymmetric ==
    Trained => \A A, B \in SYMBOLS : cooccurs[A][B] = cooccurs[B][A]

\* C4 as amended: after train(), cooccurs(A, B) is zero exactly when
\* cooccurs(B, A) is, and the two are equal when no line of the corpus holds
\* a symbol twice.
C4_CooccursSymmetricNoRepeats ==
    Trained => \A A, B \in SYMBOLS :
        /\ cooccurs[A][B] = 0 <=> cooccurs[B][A] = 0
        /\ NoRepeats => cooccurs[A][B] = cooccurs[B][A]

C4_Witness ==
    /\ Trained
    /\ NoRepeats
    /\ Len(corpus) = 2
    /\ cooccurs["a"]["c"] = 2 /\ cooccurs["c"]["a"] = 2

\* C5: after train(), B is in Requires(A) exactly when at every position of
\* the corpus that holds A, B stands at another position of the same line.
C5_RequiresIffAlwaysTogether ==
    Trained => \A A, B \in SYMBOLS :
        B \in Get(requires, A) <=>
            \A p \in Positions : TokenAt(p) = A => Elsewhere(B, p)

C5_Witness ==
    /\ Trained
    /\ counts["a"] >= 2 /\ counts["c"] >= 2
    /\ "c" \in Get(requires, "a")
    /\ "a" \notin Get(requires, "c")

\* The symbols that stand before (after) every position holding A.
AlwaysEarlier(A) ==
    {B \in SYMBOLS : \A p \in Positions : TokenAt(p) = A => Earlier(B, p)}

AlwaysLater(A) ==
    {B \in SYMBOLS : \A p \in Positions : TokenAt(p) = A => Later(B, p)}

\* C6: Must-precede(A) is exactly the set of alphabet symbols standing before
\* every training occurrence of A (the full alphabet when there is none, the
\* empty set once an occurrence has nothing before it), Must-follow(A)
\* likewise, and the candidate sets only ever shrink.
C6_MustSetsAreIntersections ==
    /\ [](err = "none" => \A A \in SYMBOLS :
            /\ mustprecede[A] = AlwaysEarlier(A)
            /\ mustfollow[A] = AlwaysLater(A)
            /\ (\E p \in Positions : TokenAt(p) = A /\ p[2] = 1)
                    => mustprecede[A] = {})
    /\ [][\A A \in SYMBOLS :
            /\ mustprecede'[A] \subseteq mustprecede[A]
            /\ mustfollow'[A] \subseteq mustfollow[A]]_vars

C6_Witness ==
    /\ Trained
    /\ Len(corpus) = 2
    /\ corpus[1] # corpus[2]
    /\ mustprecede["a"] = {"c"}
    /\ mustfollow["c"] = {}
    /\ mustprecede["d"] = SYMBOLS

\* The set each rule table yields for a symbol, an absent key yielding {}.
RuleSets ==
    [s \in Tokens |->
        <<Get(requires, s), Get(excludes, s), Get(noprecede, s),
          Get(nofollow, s)>>]

C8_RequiresExcludesDisjoint ==
    Trained => \A A \in SYMBOLS :
        Get(requires, A) \cap Get(excludes, A) = {}

C8_Witness ==
    /\ Trained
    /\ ~Occurs("c")
    /\ Get(requires, "a") # {} /\ Get(excludes, "a") # {}
    /\ Get(requires, "c") # {}

\* The test record is a line of the corpus.
IsCorpusLine(sent) == \E i \in 1..Len(corpus) : corpus[i] = sent

\* C9: after train() on a corpus of alphabet symbols, each line of the corpus
\* is classified ok on both verdicts, with no reasons.
C9_TrainingLinesPass ==
    (pc = "test" /\ AlphabetCorpus /\ IsCorpusLine(line_symbols)) =>
        /\ err = "none"
        /\ cooccur_ok /\ cooccur_reasons = {}
        /\ linear_ok /\ linear_reasons = {}

C9_Witness ==
    /\ pc = "test"
    /\ AlphabetCorpus
    /\ Len(corpus) = 2
    /\ corpus[1] # corpus[2]
    /\ line_symbols = corpus[2]
    /\ Len(line_symbols) = 3
    /\ cooccur_ok /\ linear_ok

\* C10: after train(), for each symbol A that occurs in the corpus,
\* Must-precede(A) lies within the symbols seen before A and shares nothing
\* with No-precede(A), and Must-follow(A) likewise on the other side.
C10_MustWithinObserved ==
    Trained => \A A \in SYMBOLS : Occurs(A) =>
        /\ mustprecede[A] \subseteq before[A]
        /\ mustprecede[A] \cap Get(noprecede, A) = {}
        /\ mustfollow[A] \subseteq after[A]
        /\ mustfollow[A] \cap Get(nofollow, A) = {}

C10_Witness ==
    /\ Trained
    /\ Len(corpus) = 2
    /\ mustprecede["a"] = {"c"}
    /\ mustfollow["c"] = {"a"}
    /\ Get(noprecede, "a") # {}

====
